---- MODULE Spec2Model ----
(***************************************************************************)
(* A model of the tatc-mcp request pipeline: validation.py,                *)
(* celestrak_client.py, tatc_integration.py, tatc_mcp/schema_formatter.py  *)
(* and the handlers of server.py.                                          *)
(*                                                                         *)
(* Instants are integers (seconds; Python's datetime/timedelta arithmetic  *)
(* is exact integer arithmetic on microseconds, so nothing is rounded).    *)
(* A datetime is [wall, aware, off]: the wall-clock reading, whether it    *)
(* carries a tzinfo, and that tzinfo's UTC offset in seconds.  Degrees and *)
(* metres are integers.  A text is a sequence of tokens.                   *)
(***************************************************************************)
EXTENDS Integers, Sequences, FiniteSets, TLC

----------------------------------------------------------------------------
(* Bounds of the model *)

MaxStart ==
    1
MaxDuration ==
    4
MaxStep ==
    3
MaxInstants ==
    4
MaxPoints ==
    4
MaxRing ==
    4
MaxTrack ==
    3
MaxRecords ==
    2
MaxLines ==
    3
MaxRequests ==
    2

(* Program constants *)

MIN_LAT ==
    -90
MAX_LAT ==
    90
MIN_LON ==
    -180
MAX_LON ==
    180
FULL_TURN ==
    360
MIN_RING ==
    3
MIN_STEP ==
    1
MAX_STEP ==
    3600
MAX_REASONABLE_SECONDS ==
    2592000
MIN_NORAD_ID ==
    1
MAX_NORAD_ID ==
    99999
MIN_TLE_LEN ==
    69
SEARCH_LIMIT ==
    1
DEFAULT_SEARCH_LIMIT ==
    10
DEFAULT_DURATION_SECONDS ==
    3600
DEFAULT_STEP_SECONDS ==
    60
DEFAULT_FOV_DEGREES ==
    60
FOOTPRINT_POLYGON_POINTS ==
    16
EARTH_RADIUS_M ==
    6371000

----------------------------------------------------------------------------
(* Python values *)

\* Optional[...]: None, or a value
None ==
    [some |-> FALSE]
Some(v) ==
    [some |-> TRUE, value |-> v]

\* The outcome of a call: it raised, or it returned v
Raised(kind) ==
    [raised |-> TRUE, error |-> kind]
Ok(v) ==
    [raised |-> FALSE, value |-> v]

\* {} (an empty dict)
EmptyDict ==
    [k \in {} |-> 0]

DateTime(wall, aware, off) ==
    [wall |-> wall, aware |-> aware, off |-> off]
Naive(wall) ==
    DateTime(wall, FALSE, 0)

\* datetime.replace(tzinfo=timezone.utc): the wall clock is kept
replace_tzinfo_utc(time) ==
    DateTime(time.wall, TRUE, 0)
\* datetime.replace(tzinfo=None): the wall clock is kept
replace_tzinfo_none(time) ==
    DateTime(time.wall, FALSE, 0)
\* datetime.astimezone(timezone.utc): the instant is kept
astimezone_utc(time) ==
    DateTime(time.wall - time.off, TRUE, 0)
\* datetime + timedelta(seconds=s)
plus_seconds(time, s) ==
    [time EXCEPT !.wall = @ + s]

----------------------------------------------------------------------------
(* validation.py *)

validate_coordinates_clamping(lat_deg, lon_deg) ==
    LET lat == IF lat_deg < MIN_LAT THEN MIN_LAT
               ELSE IF lat_deg > MAX_LAT THEN MAX_LAT ELSE lat_deg
        lon == IF lon_deg < MIN_LON \/ lon_deg > MAX_LON
               THEN ((lon_deg + MAX_LON) % FULL_TURN) - MAX_LON
               ELSE lon_deg
    IN  Ok(<<lat, lon>>)

validate_coordinates_always_wrapping(lat_deg, lon_deg) ==
    IF ~(MIN_LAT <= lat_deg /\ lat_deg <= MAX_LAT)
    THEN Raised("ValueError")
    ELSE Ok(<<lat_deg, ((lon_deg + MAX_LON) % FULL_TURN) - MAX_LON>>)

validate_coordinates(lat_deg, lon_deg) ==
    IF ~(MIN_LAT <= lat_deg /\ lat_deg <= MAX_LAT)
    THEN Raised("ValueError")
    ELSE LET lon == IF lon_deg < MIN_LON \/ lon_deg > MAX_LON
                    THEN ((lon_deg + MAX_LON) % FULL_TURN) - MAX_LON
                    ELSE lon_deg
         IN  Ok(<<lat_deg, lon>>)

----------------------------------------------------------------------------
(* tatc_mcp/schema_formatter.py *)

\* Tokens of a timestamp text
DateTok(wall) ==
    [kind |-> "datetime", wall |-> wall]
OffsetTok(off) ==
    [kind |-> "offset", off |-> off]
ZTok ==
    [kind |-> "Z"]

\* datetime.isoformat(): the wall clock, then "+HH:MM" / "-HH:MM" when aware
isoformat(time) ==
    IF time.aware THEN <<DateTok(time.wall), OffsetTok(time.off)>>
    ELSE <<DateTok(time.wall)>>

\* str.endswith for a one-token suffix
endswith(text, tok) ==
    Len(text) > 0 /\ text[Len(text)] = tok

format_timestamp(time) ==
    LET t == IF ~time.aware THEN replace_tzinfo_utc(time) ELSE time
        iso_str == isoformat(t)
    IN  IF endswith(iso_str, OffsetTok(0))
        THEN SubSeq(iso_str, 1, Len(iso_str) - 1) \o <<ZTok>>
        ELSE IF ~endswith(iso_str, ZTok) THEN iso_str \o <<ZTok>>
        ELSE iso_str

format_position_lla(lat_deg, lon_deg, alt_m) ==
    LET r == validate_coordinates(lat_deg, lon_deg)
    IN  IF r.raised THEN r
        ELSE Ok([lat_deg |-> r.value[1], lon_deg |-> r.value[2], alt_m |-> alt_m])

\* The loop of format_footprint_geojson: the vertices that pass validation
RECURSIVE validated_coords(_)
validated_coords(coordinates) ==
    IF coordinates = <<>> THEN <<>>
    ELSE LET coord == Head(coordinates)
             rest == validated_coords(Tail(coordinates))
         IN  IF Len(coord) < 2 THEN rest
             ELSE LET r == validate_coordinates(coord[2], coord[1])
                  IN  IF r.raised THEN rest
                      ELSE <<<<r.value[2], r.value[1]>>>> \o rest

close_ring_never(ring) ==
    ring

\* Ensure polygon is closed (first point == last point)
close_ring(ring) ==
    IF ring[1] # ring[Len(ring)] THEN Append(ring, ring[1]) ELSE ring

format_footprint_geojson(coordinates) ==
    IF Len(coordinates) < MIN_RING THEN None
    ELSE LET validated == validated_coords(coordinates)
         IN  IF Len(validated) < MIN_RING THEN None
             ELSE Some([type |-> "Feature",
                        geometry |-> [type |-> "Polygon",
                                      coordinates |-> <<close_ring(validated)>>],
                        properties |-> EmptyDict])

RECURSIVE format_trajectory_batch(_)
format_trajectory_batch(ground_track) ==
    IF ground_track = <<>> THEN <<>>
    ELSE LET s == Head(ground_track)
             p == format_position_lla(s[2], s[3], s[4])
             rest == format_trajectory_batch(Tail(ground_track))
         IN  IF p.raised THEN rest
             ELSE <<[time |-> format_timestamp(s[1]), position_lla |-> p.value]>> \o rest

\* str.strip() on a text of one-character tokens
RECURSIVE lstrip(_)
lstrip(text) ==
    IF text # <<>> /\ Head(text) = " " THEN lstrip(Tail(text)) ELSE text
RECURSIVE rstrip(_)
rstrip(text) ==
    IF text # <<>> /\ text[Len(text)] = " "
    THEN rstrip(SubSeq(text, 1, Len(text) - 1)) ELSE text
strip_nothing(text) ==
    text

strip(text) ==
    rstrip(lstrip(text))

\* message[key] = value
with_field(message, key, value) ==
    (key :> value) @@ message

\* if state_flags is not None and len(state_flags) > 0
state_flags_given(state_flags) ==
    state_flags.some /\ Len(state_flags.value) > 0

\* if trajectory_batches is not None
trajectory_given(trajectory_batches) ==
    trajectory_batches.some

format_telemetry_message(satellite_id, time, position_lla, footprint_coords, trajectory_batches, lookpoint_lla, state_flags) ==
    IF satellite_id = <<>> \/ strip(satellite_id) = <<>>
    THEN Raised("ValueError")
    ELSE
    LET pos == format_position_lla(position_lla[1], position_lla[2], position_lla[3])
        look == IF lookpoint_lla.some
                THEN format_position_lla(lookpoint_lla.value[1],
                                         lookpoint_lla.value[2],
                                         lookpoint_lla.value[3])
                ELSE Ok(None)
        footprint_geojson == IF footprint_coords.some
                             THEN format_footprint_geojson(footprint_coords.value)
                             ELSE None
        m0 == [id |-> strip(satellite_id), time |-> format_timestamp(time)]
        m1 == with_field(m0, "position_lla", pos.value)
        m2 == IF lookpoint_lla.some
              THEN with_field(m1, "lookpoint_lla", look.value) ELSE m1
        m3 == IF footprint_geojson.some
              THEN with_field(m2, "footprint_geojson", footprint_geojson.value)
              ELSE m2
        m4 == IF state_flags_given(state_flags)
              THEN with_field(m3, "state_flags", state_flags.value) ELSE m3
        m5 == IF trajectory_given(trajectory_batches)
              THEN with_field(m4, "trajectory_batches",
                              format_trajectory_batch(trajectory_batches.value))
              ELSE m4
    IN  IF pos.raised THEN pos
        ELSE IF look.raised THEN look
        ELSE Ok(m5)

stop_at_sample(messages, r) ==
    <<>>

\* except ValueError: the sample is skipped
skip_sample(messages, r) ==
    messages

\* The loop of format_ground_track_response from (0-based) index i on
RECURSIVE format_ground_track_from(_, _, _, _)
format_ground_track_from(satellite_id, ground_track, footprints, i) ==
    IF i >= Len(ground_track) THEN <<>>
    ELSE LET s == ground_track[i + 1]
             footprint_coords == IF footprints.some /\ i < Len(footprints.value)
                                 THEN footprints.value[i + 1] ELSE None
             r == format_telemetry_message(satellite_id, s[1], <<s[2], s[3], s[4]>>,
                                           footprint_coords, None, None, None)
             rest == format_ground_track_from(satellite_id, ground_track, footprints, i + 1)
         IN  IF r.raised THEN skip_sample(rest, r) ELSE <<r.value>> \o rest

format_ground_track_response(satellite_id, ground_track, footprints) ==
    format_ground_track_from(satellite_id, ground_track, footprints, 0)

----------------------------------------------------------------------------
(* Texts handed to int(), float() and str.split(): a sequence of tokens, each
   an integer literal or a word *)

NumTok(n) ==
    [kind |-> "int", n |-> n]
WordTok(w) ==
    [kind |-> "word", w |-> w]
\* A literal that float() reads and int() does not, such as "2.0"; n is its value
FloatTok(n) ==
    [kind |-> "float", n |-> n]
\* A date text that dateutil parses, to the datetime it parses to
DateTextTok(time) ==
    [kind |-> "date", time |-> time]

\* int(text): the text is one integer literal
int_of(text) ==
    IF Len(text) = 1 /\ text[1].kind = "int" THEN Ok(text[1].n)
    ELSE Raised("ValueError")

\* str(n) for an integer n: one token of digits, never blank
str_of(n) ==
    <<ToString(n)>>

\* str.lower() on a unit word
lower(w) ==
    CASE w = "SEC" -> "sec"
      [] w = "Hour" -> "hour"
      [] w = "Seconds" -> "seconds"
      [] OTHER -> w

----------------------------------------------------------------------------
(* server.py: the input normalizer *)

\* _TIME_UNITS, then the names _UNIT_TO_DELTA knows
parse_time_unit(unit) ==
    LET u == lower(unit)
    IN  CASE u \in {"second", "sec", "secs"} -> Some("seconds")
          [] u \in {"minute", "min", "mins"} -> Some("minutes")
          [] u \in {"hour", "hr", "hrs"} -> Some("hours")
          [] u = "day" -> Some("days")
          [] u \in {"seconds", "minutes", "hours", "days"} -> Some(u)
          [] OTHER -> None

\* _UNIT_TO_DELTA: the timedelta, in seconds
unit_to_timedelta(unit, amount) ==
    CASE unit = "seconds" -> Ok(amount)
      [] unit = "minutes" -> Ok(amount * 60)
      [] unit = "hours" -> Ok(amount * 3600)
      [] unit = "days" -> Ok(amount * 86400)
      [] OTHER -> Raised("ValueError")

parse_duration_bare_seconds(duration_str) ==
    LET bare == int_of(duration_str)
    IN  IF ~bare.raised THEN Ok(bare.value)
        ELSE IF Len(duration_str) < 2 THEN Raised("ValueError")
        ELSE IF duration_str[1].kind \notin {"int", "float"} THEN Raised("ValueError")
        ELSE LET unit == IF duration_str[2].kind = "word"
                         THEN parse_time_unit(duration_str[2].w) ELSE None
             IN  IF ~unit.some THEN Raised("ValueError")
                 ELSE unit_to_timedelta(unit.value, duration_str[1].n)

\* parse_duration, to seconds (amounts are whole numbers here)
parse_duration(duration_str) ==
    LET bare == int_of(duration_str)
    IN  IF ~bare.raised THEN Ok(bare.value * 60)
        ELSE IF Len(duration_str) < 2 THEN Raised("ValueError")
        ELSE IF duration_str[1].kind \notin {"int", "float"} THEN Raised("ValueError")
        ELSE LET unit == IF duration_str[2].kind = "word"
                         THEN parse_time_unit(duration_str[2].w) ELSE None
             IN  IF ~unit.some THEN Raised("ValueError")
                 ELSE unit_to_timedelta(unit.value, duration_str[1].n)

\* _parse_relative_time: "in <integer> <unit>", or None
parse_relative_time(time_str, now) ==
    IF ~(Len(time_str) > 0 /\ time_str[1] = WordTok("in")) THEN None
    ELSE IF Len(time_str) < 3 THEN None
    ELSE IF time_str[2].kind # "int" THEN None
    ELSE LET unit == IF time_str[3].kind = "word"
                     THEN parse_time_unit(time_str[3].w) ELSE None
         IN  IF ~unit.some THEN None
             ELSE Some(plus_seconds(Naive(now),
                                    unit_to_timedelta(unit.value, time_str[2].n).value))

\* parse_time_input; now is what datetime.utcnow() returns
parse_time_input(time_str, now) ==
    IF time_str \in {<<WordTok("now")>>, <<WordTok("current")>>} THEN Ok(Naive(now))
    ELSE LET relative == parse_relative_time(time_str, now)
         IN  IF relative.some THEN Ok(relative.value)
             ELSE IF Len(time_str) = 1 /\ time_str[1].kind = "date"
             THEN LET dt == time_str[1].time
                      utc == IF ~dt.aware THEN replace_tzinfo_utc(dt)
                             ELSE astimezone_utc(dt)
                  IN  Ok(replace_tzinfo_none(utc))
             ELSE Raised("ValueError")

----------------------------------------------------------------------------
(* validation.py: the guards of the handler *)

validate_time_range_exclusive(start_time, end_time) ==
    IF end_time.wall <= start_time.wall THEN Raised("ValueError")
    ELSE IF end_time.wall - start_time.wall >= MAX_REASONABLE_SECONDS
    THEN Raised("ValueError")
    ELSE Ok(<<start_time, end_time>>)

validate_time_range(start_time, end_time) ==
    IF end_time.wall <= start_time.wall THEN Raised("ValueError")
    ELSE IF end_time.wall - start_time.wall > MAX_REASONABLE_SECONDS
    THEN Raised("ValueError")
    ELSE Ok(<<start_time, end_time>>)

validate_step_interval_without_maximum(step) ==
    IF step < MIN_STEP THEN Raised("ValueError")
    ELSE Ok(step)

validate_step_interval(step) ==
    IF step < MIN_STEP THEN Raised("ValueError")
    ELSE IF step > MAX_STEP THEN Raised("ValueError")
    ELSE Ok(step)

validate_norad_id(id) ==
    IF id < MIN_NORAD_ID \/ id > MAX_NORAD_ID THEN Raised("ValueError")
    ELSE Ok(id)

\* A line of text: its leading tag, its length and whether it ends in a digit
Line(tag, len, digit) ==
    [tag |-> tag, len |-> len, digit |-> digit]

validate_tle_format_without_checksum(tle_line1, tle_line2) ==
    IF tle_line1.len < MIN_TLE_LEN THEN Raised("ValueError")
    ELSE IF tle_line2.len < MIN_TLE_LEN THEN Raised("ValueError")
    ELSE IF tle_line1.tag # "1 " THEN Raised("ValueError")
    ELSE IF tle_line2.tag # "2 " THEN Raised("ValueError")
    ELSE Ok(<<tle_line1, tle_line2>>)

validate_tle_format(tle_line1, tle_line2) ==
    IF tle_line1.len < MIN_TLE_LEN THEN Raised("ValueError")
    ELSE IF tle_line2.len < MIN_TLE_LEN THEN Raised("ValueError")
    ELSE IF tle_line1.tag # "1 " THEN Raised("ValueError")
    ELSE IF tle_line2.tag # "2 " THEN Raised("ValueError")
    ELSE IF ~(tle_line1.digit /\ tle_line2.digit) THEN Raised("ValueError")
    ELSE Ok(<<tle_line1, tle_line2>>)

----------------------------------------------------------------------------
(* server.py: lines 167-176 of handle_generate_ground_track.  Each argument
   is None (absent) or a text. *)

\* Lines 168-172: the three arguments parsed, the defaults applied, the end
\* computed; nothing is validated yet
parse_request(start_time, duration, step_interval, now) ==
    LET start == IF ~start_time.some THEN Ok(Naive(now))
                 ELSE parse_time_input(start_time.value, now)
        dur == IF ~duration.some THEN Ok(DEFAULT_DURATION_SECONDS)
               ELSE parse_duration(duration.value)
        step == IF ~step_interval.some THEN Ok(DEFAULT_STEP_SECONDS)
                ELSE parse_duration(step_interval.value)
    IN  IF start.raised \/ dur.raised \/ step.raised THEN Raised("parse")
        ELSE Ok([start |-> start.value, end |-> plus_seconds(start.value, dur.value),
                 step |-> step.value])

handle_parse_and_validate(start_time, duration, step_interval, now) ==
    LET start == IF ~start_time.some THEN Ok(Naive(now))
                 ELSE parse_time_input(start_time.value, now)
        dur == IF ~duration.some THEN Ok(DEFAULT_DURATION_SECONDS)
               ELSE parse_duration(duration.value)
        step == IF ~step_interval.some THEN Ok(DEFAULT_STEP_SECONDS)
                ELSE parse_duration(step_interval.value)
    IN  IF start.raised THEN Raised("parse")
        ELSE IF dur.raised THEN Raised("parse")
        ELSE IF step.raised THEN Raised("parse")
        ELSE LET end_time_dt == plus_seconds(start.value, dur.value)
                 range == validate_time_range(start.value, end_time_dt)
                 st == validate_step_interval(step.value)
             IN  IF range.raised THEN Raised("validation")
                 ELSE IF st.raised THEN Raised("validation")
                 ELSE Ok([start |-> range.value[1], end |-> range.value[2],
                          step |-> st.value])

----------------------------------------------------------------------------
(* celestrak_client.py *)

\* A JSON value under CATNR / NORAD_CAT_ID: whether it is truthy, and what
\* int() makes of it
IdVal(truthy, int) ==
    [truthy |-> truthy, int |-> int]
MissingId ==
    IdVal(FALSE, None)

\* sat.get("CATNR") or sat.get("NORAD_CAT_ID")
raw_norad_id(sat) ==
    IF sat.CATNR.truthy THEN sat.CATNR ELSE sat.NORAD_CAT_ID

\* The loop over data[:limit]
RECURSIVE search_results(_)
search_results(data) ==
    IF data = <<>> THEN <<>>
    ELSE LET id == raw_norad_id(Head(data))
             rest == search_results(Tail(data))
         IN  IF id.truthy /\ id.int.some
             THEN <<[norad_id |-> id.int.value]>> \o rest
             ELSE rest

\* data[:limit]: the first limit records, or all but the last -limit of them
\* when limit is negative
take(data, limit) ==
    LET stop == IF limit < 0 THEN Len(data) + limit ELSE limit
    IN  SubSeq(data, 1, IF stop < 0 THEN 0
                        ELSE IF Len(data) < stop THEN Len(data) ELSE stop)

\* search_satellites_by_name, given what the catalog answered
search_satellites_by_name(response, limit) ==
    IF response.kind = "json_list" THEN search_results(take(response.data, limit))
    ELSE <<>>

\* fetch_tle after the request returned response: lines 123-160
RECURSIVE non_blank(_)
non_blank(lines) ==
    IF lines = <<>> THEN <<>>
    ELSE IF Head(lines).len = 0 THEN non_blank(Tail(lines))
    ELSE <<Head(lines)>> \o non_blank(Tail(lines))

says_not_found(lines) ==
    \E i \in 1..Len(lines) : lines[i].tag = "No GP data found"

parse_tle_response_degrading(response) ==
    IF response.kind # "text" THEN Ok(<<>>)
    ELSE LET lines == non_blank(response.lines)
         IN  IF lines = <<>> THEN Raised("ValueError")
             ELSE IF says_not_found(lines) THEN Raised("ValueError")
             ELSE IF Len(lines) < 2 THEN Raised("ValueError")
             ELSE IF Len(lines) >= 3 THEN validate_tle_format(lines[2], lines[3])
             ELSE validate_tle_format(lines[1], lines[2])

parse_tle_response(response) ==
    IF response.kind # "text" THEN Raised("RequestException")
    ELSE LET lines == non_blank(response.lines)
         IN  IF lines = <<>> THEN Raised("ValueError")
             ELSE IF says_not_found(lines) THEN Raised("ValueError")
             ELSE IF Len(lines) < 2 THEN Raised("ValueError")
             ELSE IF Len(lines) >= 3 THEN validate_tle_format(lines[2], lines[3])
             ELSE validate_tle_format(lines[1], lines[2])

outbound_retried(call, outcome) ==
    IF outcome.raised THEN <<call, call>> ELSE <<call>>

\* requests.get is called once per search and once per fetch, in no loop,
\* whatever comes back (lines 26 and 119)
outbound(call, outcome) ==
    <<call>>

\* fetch_tle, given what the catalog answers if it is asked
fetch_tle(id, response) ==
    LET v == validate_norad_id(id)
    IN  IF v.raised THEN v ELSE parse_tle_response(response)

----------------------------------------------------------------------------
(* tatc_integration.py *)

\* _ensure_utc
ensure_utc(time) ==
    IF ~time.aware THEN replace_tzinfo_utc(time) ELSE astimezone_utc(time)

\* A point the propagator returned: wgs84.subpoint and _extract_lla either
\* yield (lat, lon, alt) or raise
GoodPoint(lat, lon, alt) ==
    [ok |-> TRUE, lla |-> <<lat, lon, alt>>]
BadPoint ==
    [ok |-> FALSE]

extract_lla(point) ==
    IF point.ok THEN Ok(point.lla) ELSE Raised("Exception")

loop_condition_exclusive(current_time, end_time) ==
    current_time.wall < end_time.wall

\* while current_time <= end_time (both UTC-aware)
loop_condition(current_time, end_time) ==
    current_time.wall <= end_time.wall

RECURSIVE time_sequence_double_step(_, _, _)
time_sequence_double_step(current_time, end_time, step_seconds) ==
    IF current_time.wall <= end_time.wall
    THEN <<current_time>>
         \o time_sequence_double_step(plus_seconds(current_time, 2 * step_seconds),
                                      end_time, step_seconds)
    ELSE <<>>

RECURSIVE time_sequence(_, _, _)
time_sequence(current_time, end_time, step_seconds) ==
    IF loop_condition(current_time, end_time)
    THEN <<current_time>>
         \o time_sequence(plus_seconds(current_time, step_seconds), end_time, step_seconds)
    ELSE <<>>

\* list(track), or [track] when track is no collection
track_points_of(track) ==
    IF track.kind = "collection" THEN track.points ELSE <<track.obj>>

point_for_first(track_points, i) ==
    IF i < Len(track_points) THEN Ok(track_points[i + 1])
    ELSE IF Len(track_points) > 0 THEN Ok(track_points[1])
    ELSE Raised("IndexError")

\* track_points[i] if i < len(track_points) else track_points[-1]
point_for(track_points, i) ==
    IF i < Len(track_points) THEN Ok(track_points[i + 1])
    ELSE IF Len(track_points) > 0 THEN Ok(track_points[Len(track_points)])
    ELSE Raised("IndexError")

sample_stamped_with_epoch(time, lla) ==
    <<Naive(0), lla[1], lla[2], lla[3]>>

\* One ground-track tuple: (time.replace(tzinfo=None), lat, lon, alt)
sample(time, lla) ==
    <<replace_tzinfo_none(time), lla[1], lla[2], lla[3]>>

sample_error_escapes(rest) ==
    Raised("Exception")

\* except Exception: continue (line 143)
sample_error_caught(rest) ==
    rest

\* The loop of lines 133-145 from (0-based) index i on
RECURSIVE batch_loop(_, _, _)
batch_loop(times, track_points, i) ==
    IF i >= Len(times) THEN Ok(<<>>)
    ELSE LET p == point_for(track_points, i)
             e == IF p.raised THEN p ELSE extract_lla(p.value)
             rest == batch_loop(times, track_points, i + 1)
         IN  IF e.raised THEN sample_error_caught(rest)
             ELSE IF rest.raised THEN rest
             ELSE Ok(<<sample(times[i + 1], e.value)>> \o rest.value)

\* Lines 124-147: what the try block returns, or that it raised
batch_path(times, track) ==
    IF track.kind = "raise" THEN Raised("Exception")
    ELSE batch_loop(times, track_points_of(track), 0)

\* propagate_satellite, given the point the propagator produced
propagate_satellite(point) ==
    LET e == extract_lla(point)
    IN  IF e.raised THEN Raised("ValueError") ELSE e

after_failure_break(n, i) ==
    n + 1

\* except Exception: continue (line 157): after a failure at instant number i
\* of n, the loop goes on with instant number i + 1
after_failure(n, i) ==
    i + 1

----------------------------------------------------------------------------
(* tatc_integration.py: _calculate_circular_footprint.  The calculator works
   in floating point.  The model keeps whole degrees, and beside them what the
   floating-point sine and cosine leave where the exact value is 0: a residue
   counted in units of 2^-54 (about 6.1e-17). *)

\* math.sin(2 * math.pi * i / 16) in thousandths, i = 0..16
SIN_MILLI ==
    <<0, 383, 707, 924, 1000, 924, 707, 383, 0,
      -383, -707, -924, -1000, -924, -707, -383, 0>>

\* math.cos(2 * math.pi * i / 16) in thousandths, i = 0..16
COS_MILLI ==
    <<1000, 924, 707, 383, 0, -383, -707, -924, -1000,
      -924, -707, -383, 0, 383, 707, 924, 1000>>

\* What math.sin returns where the sine is 0: sin(0) = 0.0,
\* sin(pi) = 1.22e-16 (2 units), sin(2 pi) = -2.45e-16 (-4 units)
SIN_RESIDUE ==
    <<0, 0, 0, 0, 0, 0, 0, 0, 2, 0, 0, 0, 0, 0, 0, 0, -4>>

\* math.cos(math.radians(lat_deg)) in thousandths
COS_LAT_MILLI ==
    (-90 :> 0) @@ (-60 :> 500) @@ (0 :> 1000) @@ (45 :> 707) @@ (60 :> 500)
    @@ (90 :> 0)

\* math.cos(math.radians(90)) and math.cos(math.radians(-90)) are 6.1e-17
\* (1 unit), not 0
COS_POLE_RESIDUE ==
    1

\* degrees(asin((R + alt) * sin(30 deg) / R)) - 30 in whole degrees
ASIN_EXCESS_DEG ==
    (400000 :> 2) @@ (2000000 :> 11)

\* Lines 214-223; math.asin raises once (R + alt) * sin(30 deg) / R exceeds 1
footprint_radius_deg(alt_m) ==
    IF alt_m > 0
    THEN IF EARTH_RADIUS_M + alt_m > 2 * EARTH_RADIUS_M THEN Raised("ValueError")
         ELSE Ok(ASIN_EXCESS_DEG[alt_m])
    ELSE Ok(DEFAULT_FOV_DEGREES \div 2)

sign(n) ==
    IF n > 0 THEN 1 ELSE IF n < 0 THEN -1 ELSE 0

\* Lines 231 and 235: new_lon for vertex i.  The result is [deg, ulp]: whole
\* degrees, and the offset in the last place that an offset of some 1e-16
\* degrees leaves when the sum lon + dlon + 180 does not round it away
\* (rounds_away tells which; both happen).  At a pole the division by
\* cos = 6.1e-17 turns a sine residue into whole degrees, and any other sine
\* into an offset of some 1e16 degrees, of which the wrap leaves far.
new_lon(i, lat_deg, lon_deg, radius, rounds_away, far) ==
    LET c == COS_LAT_MILLI[lat_deg]
        s == SIN_MILLI[i + 1]
        r == SIN_RESIDUE[i + 1]
        wrap(dlon) == ((lon_deg + dlon + MAX_LON) % FULL_TURN) - MAX_LON
    IN  IF c # 0
        THEN [deg |-> wrap((radius * s) \div c),
              ulp |-> IF rounds_away THEN 0 ELSE sign(r)]
        ELSE IF s = 0
        THEN [deg |-> wrap((radius * r) \div COS_POLE_RESIDUE), ulp |-> 0]
        ELSE [deg |-> far, ulp |-> 0]

\* Lines 230 and 234: new_lat for vertex i
new_lat(i, lat_deg, radius) ==
    LET moved == lat_deg + ((radius * COS_MILLI[i + 1]) \div 1000)
    IN  IF moved > MAX_LAT THEN MAX_LAT ELSE IF moved < MIN_LAT THEN MIN_LAT ELSE moved

\* _calculate_circular_footprint with the default field of view
calculate_circular_footprint(lat_deg, lon_deg, alt_m, rounds_away, far) ==
    LET radius == footprint_radius_deg(alt_m)
    IN  IF radius.raised THEN radius
        ELSE Ok([k \in 1..(FOOTPRINT_POLYGON_POINTS + 1) |->
                   <<new_lon(k - 1, lat_deg, lon_deg, radius.value, rounds_away, far),
                     new_lat(k - 1, lat_deg, radius.value)>>])

----------------------------------------------------------------------------
(* What the handler may be given, and what the outside may answer *)

SeqsUpTo(S, n) ==
    UNION {[1..k -> S] : k \in 0..n}

Identifiers ==
    {<<NumTok(25544)>>, <<NumTok(0)>>, <<WordTok("ISS")>>}

StartTexts ==
    {<<WordTok("now")>>, <<WordTok("in"), NumTok(1), WordTok("sec")>>,
     <<WordTok("in"), NumTok(1), WordTok("fortnight")>>, <<WordTok("someday")>>,
     <<DateTextTok(DateTime(7200, TRUE, 7200))>>}
    \cup {<<DateTextTok(Naive(w))>> : w \in 0..MaxStart}

DurationTexts ==
    {<<NumTok(n), WordTok("seconds")>> : n \in 0..MaxDuration}
    \cup {<<NumTok(1)>>, <<NumTok(1), WordTok("min")>>, <<NumTok(1), WordTok("Hour")>>,
          <<NumTok(30), WordTok("days")>>, <<NumTok(31), WordTok("days")>>,
          <<NumTok(10), WordTok("minutes")>>,
          <<WordTok("soon")>>, <<NumTok(2), WordTok("fortnights")>>, <<>>}

StepTexts ==
    {<<NumTok(n), WordTok("sec")>> : n \in 0..MaxStep}
    \cup {<<NumTok(30), WordTok("seconds")>>, <<NumTok(10), WordTok("seconds")>>,
          <<NumTok(1)>>, <<NumTok(30), WordTok("mins")>>,
          <<NumTok(1), WordTok("hr")>>, <<NumTok(2), WordTok("hours")>>,
          <<WordTok("fast")>>}

Optional(S) ==
    {None} \cup {Some(x) : x \in S}

RawRecords ==
    {[CATNR |-> IdVal(TRUE, Some(20580)), NORAD_CAT_ID |-> MissingId],
     [CATNR |-> MissingId, NORAD_CAT_ID |-> IdVal(TRUE, Some(25544))],
     [CATNR |-> MissingId, NORAD_CAT_ID |-> MissingId],
     [CATNR |-> IdVal(TRUE, None), NORAD_CAT_ID |-> MissingId]}

SearchResponses ==
    {[kind |-> k] : k \in {"transport_error", "empty_body", "not_json", "json_object"}}
    \cup {[kind |-> "json_list", data |-> d] : d \in SeqsUpTo(RawRecords, MaxRecords)}

Lines ==
    {Line("name", 11, FALSE), Line("1 ", 69, TRUE), Line("2 ", 69, TRUE),
     Line("2 ", 68, TRUE), Line("2 ", 69, FALSE), Line("", 0, FALSE),
     Line("No GP data found", 16, FALSE)}

FetchResponses ==
    {[kind |-> k] : k \in {"timeout", "http_error", "request_exception"}}
    \cup {[kind |-> "text", lines |-> l] : l \in SeqsUpTo(Lines, MaxLines)}

Points ==
    {BadPoint, GoodPoint(45, 190, 400000), GoodPoint(91, 10, 400000)}

BatchResponses ==
    {[kind |-> "raise", at |-> a] : a \in {"call", "list"}}
    \cup {[kind |-> "single", obj |-> p] : p \in Points}
    \cup {[kind |-> "collection", points |-> s] : s \in SeqsUpTo(Points, MaxPoints)}

\* How many instants a validated request asks for; the model propagates the
\* requests that ask for at most MaxInstants
InstantCount(p) ==
    ((p.end.wall - p.start.wall) \div p.step) + 1

----------------------------------------------------------------------------
(* celestrak_client.py: get_norad_id and get_satellite_info *)

needs_search_always(satellite_identifier) ==
    TRUE

\* get_norad_id searches only when int() raised
needs_search(satellite_identifier) ==
    int_of(satellite_identifier).raised

\* get_norad_id, given what the catalog answers if it is asked
get_norad_id(satellite_identifier, response) ==
    LET parsed == int_of(satellite_identifier)
    IN  IF ~parsed.raised THEN Some(parsed.value)
        ELSE LET results == search_satellites_by_name(response, SEARCH_LIMIT)
             IN  IF results # <<>> THEN Some(results[1].norad_id) ELSE None

unresolved_returns_empty ==
    Ok(<<>>)

\* get_satellite_info when get_norad_id returned None (lines 217-220)
unresolved ==
    Raised("resolution")

----------------------------------------------------------------------------
(* The state *)

VARIABLES
    pc,                     \* where the handler is
    tool,                   \* which handler call_tool is running
    served,                 \* the requests served before this one, with their calls
    satellite_identifier,   \* the handler's argument
    request,                \* which time arguments were supplied, and what they parsed to
    params,                 \* start, end and step once validated
    found,                  \* the catalog's answer to the name search, and its results
    norad_id,               \* what get_norad_id returned
    sat_info,               \* what get_satellite_info returned
    times,                  \* the instant sequence
    batch,                  \* what the batch propagation call answered
    singles,                \* what the per-instant calls answered, in order
    idx,                    \* the fallback loop's next instant (1-based)
    ground_track,           \* generate_ground_track's list
    messages,               \* what the handler returned
    error,                  \* the error the handler raised
    calls,                  \* the outbound calls this request issued, in order
    fmtOp, fmtIn, fmtOut    \* a function applied on its own: which, to what, its result

handlerVars ==
    <<pc, tool, served, satellite_identifier, request, params, found, norad_id, sat_info, times, batch,
      singles, idx, ground_track, messages, error, calls>>
fmtVars ==
    <<fmtOp, fmtIn, fmtOut>>
vars ==
    <<handlerVars, fmtVars>>

Init ==
    /\ pc = "idle"
    /\ tool = "none"
    /\ served = <<>>
    /\ satellite_identifier = <<>>
    /\ request = None
    /\ params = None
    /\ found = None
    /\ norad_id = None
    /\ sat_info = None
    /\ times = <<>>
    /\ batch = [kind |-> "none"]
    /\ singles = <<>>
    /\ idx = 1
    /\ ground_track = <<>>
    /\ messages = None
    /\ error = "none"
    /\ calls = <<>>
    /\ fmtOp = "none"
    /\ fmtIn = None
    /\ fmtOut = None

----------------------------------------------------------------------------
(* handle_generate_ground_track, one action per outbound call *)

\* server.py 167-176: parse the arguments, apply the defaults, validate
HandleRequest ==
    /\ pc = "idle"
    /\ \E id \in Identifiers, st \in Optional(StartTexts), du \in Optional(DurationTexts),
          si \in Optional(StepTexts), now \in 0..MaxStart :
         LET r == handle_parse_and_validate(st, du, si, now)
             parsed == parse_request(st, du, si, now)
         IN  /\ satellite_identifier' = id
             /\ request' = Some([supplied |-> [start_time |-> st.some,
                                               duration |-> du.some,
                                               step_interval |-> si.some],
                                 parsed |-> IF parsed.raised THEN None
                                            ELSE Some(parsed.value)])
             /\ IF r.raised
                THEN /\ pc' = "error"
                     /\ error' = r.error
                     /\ UNCHANGED params
                ELSE /\ pc' = "resolve"
                     /\ params' = Some(r.value)
                     /\ UNCHANGED error
    /\ tool' = "generate_ground_track"
    /\ UNCHANGED <<served, found, norad_id, sat_info, times, batch, singles, idx,
                   ground_track, messages, calls, fmtVars>>

\* celestrak_client.py 215-220: get_norad_id, with its name search
GetNoradId ==
    /\ pc = "resolve"
    /\ \E response \in SearchResponses :
         LET id == get_norad_id(satellite_identifier, response)
             searched == needs_search(satellite_identifier)
         IN  /\ IF searched THEN TRUE ELSE response = [kind |-> "transport_error"]
             /\ calls' = IF searched
                         THEN calls \o outbound([op |-> "search",
                                                 query |-> satellite_identifier,
                                                 limit |-> SEARCH_LIMIT],
                                                Ok(search_satellites_by_name(response,
                                                                             SEARCH_LIMIT)))
                         ELSE calls
             /\ found' = IF searched
                         THEN Some([answer |-> response.kind,
                                    results |-> search_satellites_by_name(response,
                                                                          SEARCH_LIMIT)])
                         ELSE None
             /\ norad_id' = id
             /\ IF id.some
                THEN /\ pc' = "fetch"
                     /\ UNCHANGED <<error, messages>>
                ELSE IF unresolved.raised
                THEN /\ pc' = "error"
                     /\ error' = unresolved.error
                     /\ UNCHANGED messages
                ELSE /\ pc' = "done"
                     /\ messages' = Some(unresolved.value)
                     /\ UNCHANGED error
    /\ UNCHANGED <<tool, served, request, satellite_identifier, params, sat_info,
                   times, batch, singles, idx, ground_track, fmtVars>>

\* celestrak_client.py 222 and 96-174: fetch_tle (the display name cut from
\* line 1 is left out of sat_info)
FetchTle ==
    /\ pc = "fetch"
    /\ LET v == validate_norad_id(norad_id.value)
       IN  IF v.raised
           THEN /\ pc' = "error"
                /\ error' = "fetch"
                /\ UNCHANGED <<sat_info, calls>>
           ELSE \E response \in FetchResponses :
                  LET r == parse_tle_response(response)
                  IN  /\ calls' = calls \o outbound([op |-> "fetch", norad_id |-> v.value], r)
                      /\ IF r.raised
                         THEN /\ pc' = "error"
                              /\ error' = "fetch"
                              /\ UNCHANGED sat_info
                         ELSE /\ pc' = IF tool = "get_satellite_info" THEN "done"
                                       ELSE "propagate"
                              /\ sat_info' = Some([norad_id |-> v.value,
                                                   tle_line1 |-> r.value[1],
                                                   tle_line2 |-> r.value[2]])
                              /\ UNCHANGED error
    /\ UNCHANGED <<tool, served, request, satellite_identifier, params, found,
                   norad_id, times, batch, singles, idx, ground_track, messages,
                   fmtVars>>

\* server.py 182: create_satellite_from_tle raises
CreateSatelliteFails ==
    /\ pc = "propagate"
    /\ pc' = "error"
    /\ error' = "create"
    /\ UNCHANGED <<tool, served, request, satellite_identifier, params, found,
                   norad_id, sat_info, times, batch, singles, idx, ground_track,
                   messages, calls, fmtVars>>

\* tatc_integration.py 113-147: the instant sequence and the batch call
BatchPropagate ==
    /\ pc = "propagate"
    /\ InstantCount(params.value) <= MaxInstants
    /\ \E track \in BatchResponses :
         LET p == params.value
             ts == time_sequence(ensure_utc(p.start), ensure_utc(p.end), p.step)
             r == batch_path(ts, track)
         IN  /\ times' = ts
             /\ batch' = track
             /\ calls' = Append(calls, [op |-> "propagate_batch", times |-> ts])
             /\ IF r.raised /\ Len(ts) > 0
                THEN /\ pc' = "fallback"
                     /\ ground_track' = <<>>
                ELSE /\ pc' = "format"
                     /\ ground_track' = IF r.raised THEN <<>> ELSE r.value
    /\ idx' = 1
    /\ UNCHANGED <<tool, served, request, satellite_identifier, params, found,
                   norad_id, sat_info, singles, messages, error, fmtVars>>

\* tatc_integration.py 153-159: one pass of the fallback loop
PropagateOne ==
    /\ pc = "fallback"
    /\ \E point \in Points :
         LET time == times[idx]
             r == propagate_satellite(point)
             next == IF r.raised THEN after_failure(Len(times), idx) ELSE idx + 1
         IN  /\ calls' = Append(calls, [op |-> "propagate", time |-> time])
             /\ singles' = Append(singles, point)
             /\ ground_track' = IF r.raised THEN ground_track
                                ELSE Append(ground_track, sample(time, r.value))
             /\ idx' = next
             /\ pc' = IF next > Len(times) THEN "format" ELSE "fallback"
    /\ UNCHANGED <<tool, served, request, satellite_identifier, params, found,
                   norad_id, sat_info, times, batch, messages, error, fmtVars>>

\* server.py 186: format_ground_track_response
FormatResponse ==
    /\ pc = "format"
    /\ messages' = Some(format_ground_track_response(str_of(sat_info.value.norad_id),
                                                     ground_track, None))
    /\ pc' = "done"
    /\ UNCHANGED <<tool, served, request, satellite_identifier, params, found,
                   norad_id, sat_info, times, batch, singles, idx, ground_track, error,
                   calls, fmtVars>>

Next ==
    \/ HandleRequest
    \/ GetNoradId
    \/ FetchTle
    \/ CreateSatelliteFails
    \/ BatchPropagate
    \/ PropagateOne
    \/ FormatResponse

Spec ==
    Init /\ [][Next]_vars

----------------------------------------------------------------------------
(* call_tool serving get_satellite_info requests one after another *)

\* server.py 189-199: handle_get_satellite_info calls get_satellite_info
InfoRequest ==
    /\ pc = "idle"
    /\ \E id \in Identifiers : satellite_identifier' = id
    /\ tool' = "get_satellite_info"
    /\ pc' = "resolve"
    /\ UNCHANGED <<served, request, params, found, norad_id, sat_info, times, batch,
                   singles, idx, ground_track, messages, error, calls, fmtVars>>

\* server.py 315-338: the next tool call starts its handler afresh; nothing
\* of the request just served is kept by the program
NextRequest ==
    /\ pc \in {"done", "error"}
    /\ Len(served) + 1 < MaxRequests
    /\ served' = Append(served, [identifier |-> satellite_identifier,
                                 calls |-> calls, result |-> sat_info])
    /\ pc' = "idle"
    /\ tool' = "none"
    /\ satellite_identifier' = <<>>
    /\ request' = None
    /\ params' = None
    /\ found' = None
    /\ norad_id' = None
    /\ sat_info' = None
    /\ times' = <<>>
    /\ batch' = [kind |-> "none"]
    /\ singles' = <<>>
    /\ idx' = 1
    /\ ground_track' = <<>>
    /\ messages' = None
    /\ error' = "none"
    /\ calls' = <<>>
    /\ UNCHANGED fmtVars

NextInfo ==
    \/ InfoRequest
    \/ GetNoradId
    \/ FetchTle
    \/ NextRequest

SpecInfo ==
    Init /\ [][NextInfo]_vars

----------------------------------------------------------------------------
(* Functions applied on their own, to arguments drawn from bounded sets *)

FmtDateTimes ==
    {Naive(w) : w \in 0..MaxStart}
    \cup {DateTime(w, TRUE, off) : w \in 0..MaxStart, off \in {0, 19800, -7200}}

Lats ==
    {-91, -90, 0, 45, 90, 91}
Lons ==
    {-540, -181, -180, 0, 180, 181, 190, 360, 540}
Alts ==
    {0, 400000}

\* [lon, lat] vertices; one has a single coordinate, one three
Vertices ==
    {<<0, 0>>, <<10, 0>>, <<0, 10>>, <<190, 0>>, <<-170, 0>>, <<0, 95>>, <<5>>,
     <<20, 20, 7>>}

SatelliteIds ==
    {<<"25544">>, <<>>, <<" ", " ">>, <<" ", "ISS", " ">>}

Positions ==
    {<<45, 190, 400000>>, <<91, 10, 400000>>, <<-90, -180, 0>>}

\* Ground-track tuples (time, lat, lon, alt)
Samples ==
    {<<Naive(w), lla[1], lla[2], lla[3]>> :
        w \in 0..1, lla \in {<<45, 190, 400000>>, <<91, 10, 400000>>}}

FootprintArgs ==
    {<<>>,
     <<<<0, 0>>, <<10, 0>>, <<0, 10>>>>,
     <<<<0, 0>>, <<10, 0>>, <<0, 10>>, <<0, 0>>>>,
     <<<<0, 0>>, <<0, 95>>, <<0, 10>>>>}

StateFlags ==
    {"nominal", "eclipse"}

\* Unit words: the ones _TIME_UNITS and _UNIT_TO_DELTA know, three of them in
\* another case, and some they do not know
UnitWords ==
    {"second", "seconds", "sec", "secs", "minute", "minutes", "min", "mins",
     "hour", "hours", "hr", "hrs", "day", "days", "SEC", "Hour", "Seconds",
     "fortnight", "weeks", "h", "s"}

Amounts ==
    {NumTok(0), NumTok(1), NumTok(10), NumTok(90), FloatTok(2)}

ParseTexts ==
    {<<>>, <<NumTok(1), NumTok(2)>>,
     <<NumTok(1), WordTok("hour"), NumTok(30), WordTok("minutes")>>}
    \cup {<<a>> : a \in Amounts}
    \cup {<<WordTok(u)>> : u \in UnitWords}
    \cup {<<a, WordTok(u)>> : a \in Amounts, u \in UnitWords}
    \cup {<<WordTok(u), a>> : a \in Amounts, u \in {"hour", "fortnight"}}

HandlerStepTexts ==
    StepTexts \cup {<<NumTok(2)>>, <<NumTok(60)>>, <<NumTok(61)>>, <<FloatTok(2)>>}

FootprintLats ==
    {-90, -60, 0, 45, 60, 90}
FootprintLons ==
    {-180, 0, 10, 179, 180}
FootprintAlts ==
    {0, 400000, 2000000, 7000000}
\* Longitudes the wrap leaves of an offset of some 1e16 degrees
FarLons ==
    {-176, 0, 158}

\* The limits search_satellites_by_name is called with: get_norad_id's 1, the
\* tool's default, and what a caller of the tool may pass
SearchLimits ==
    {SEARCH_LIMIT, DEFAULT_SEARCH_LIMIT, 0, -1}

NoradIds ==
    {0, 1, 25544, 99999, 100000}

ApplyFormatTimestamp ==
    /\ fmtOp = "none"
    /\ \E time \in FmtDateTimes :
         /\ fmtIn' = [time |-> time]
         /\ fmtOut' = format_timestamp(time)
    /\ fmtOp' = "format_timestamp"
    /\ UNCHANGED handlerVars

ApplyValidateCoordinates ==
    /\ fmtOp = "none"
    /\ \E lat_deg \in Lats, lon_deg \in Lons :
         /\ fmtIn' = [lat_deg |-> lat_deg, lon_deg |-> lon_deg]
         /\ fmtOut' = validate_coordinates(lat_deg, lon_deg)
    /\ fmtOp' = "validate_coordinates"
    /\ UNCHANGED handlerVars

ApplyFormatPositionLla ==
    /\ fmtOp = "none"
    /\ \E lat_deg \in Lats, lon_deg \in Lons, alt_m \in Alts :
         /\ fmtIn' = [lat_deg |-> lat_deg, lon_deg |-> lon_deg, alt_m |-> alt_m]
         /\ fmtOut' = format_position_lla(lat_deg, lon_deg, alt_m)
    /\ fmtOp' = "format_position_lla"
    /\ UNCHANGED handlerVars

ApplyFormatFootprintGeojson ==
    /\ fmtOp = "none"
    /\ \E coordinates \in SeqsUpTo(Vertices, MaxRing) :
         /\ fmtIn' = [coordinates |-> coordinates]
         /\ fmtOut' = format_footprint_geojson(coordinates)
    /\ fmtOp' = "format_footprint_geojson"
    /\ UNCHANGED handlerVars

ApplyFormatTelemetryMessage ==
    /\ fmtOp = "none"
    /\ \E satellite_id \in SatelliteIds, time \in {Naive(0), DateTime(7200, TRUE, 7200)},
          position_lla \in Positions, footprint_coords \in Optional(FootprintArgs),
          trajectory_batches \in Optional(SeqsUpTo(Samples, 1)),
          lookpoint_lla \in Optional(Positions),
          state_flags \in Optional(SeqsUpTo(StateFlags, 1)) :
         /\ fmtIn' = [satellite_id |-> satellite_id, time |-> time,
                      position_lla |-> position_lla,
                      footprint_coords |-> footprint_coords,
                      trajectory_batches |-> trajectory_batches,
                      lookpoint_lla |-> lookpoint_lla, state_flags |-> state_flags]
         /\ fmtOut' = format_telemetry_message(satellite_id, time, position_lla,
                                               footprint_coords, trajectory_batches,
                                               lookpoint_lla, state_flags)
    /\ fmtOp' = "format_telemetry_message"
    /\ UNCHANGED handlerVars

ApplyFormatGroundTrackResponse ==
    /\ fmtOp = "none"
    /\ \E satellite_id \in SatelliteIds, track \in SeqsUpTo(Samples, MaxTrack),
          footprints \in Optional(SeqsUpTo(Optional(FootprintArgs), 1)) :
         /\ fmtIn' = [satellite_id |-> satellite_id, ground_track |-> track,
                      footprints |-> footprints]
         /\ fmtOut' = format_ground_track_response(satellite_id, track, footprints)
    /\ fmtOp' = "format_ground_track_response"
    /\ UNCHANGED handlerVars

ApplyFetchTle ==
    /\ fmtOp = "none"
    /\ \E id \in NoradIds, response \in FetchResponses :
         /\ fmtIn' = [norad_id |-> id, response |-> response]
         /\ fmtOut' = fetch_tle(id, response)
    /\ fmtOp' = "fetch_tle"
    /\ UNCHANGED handlerVars

ApplySearchSatellitesByName ==
    /\ fmtOp = "none"
    /\ \E response \in SearchResponses, limit \in SearchLimits :
         /\ fmtIn' = [response |-> response, limit |-> limit]
         /\ fmtOut' = search_satellites_by_name(response, limit)
    /\ fmtOp' = "search_satellites_by_name"
    /\ UNCHANGED handlerVars

ApplyCalculateCircularFootprint ==
    /\ fmtOp = "none"
    /\ \E lat_deg \in FootprintLats, lon_deg \in FootprintLons, alt_m \in FootprintAlts,
          rounds_away \in BOOLEAN, far \in FarLons :
         /\ fmtIn' = [lat_deg |-> lat_deg, lon_deg |-> lon_deg, alt_m |-> alt_m,
                      rounds_away |-> rounds_away, far |-> far]
         /\ fmtOut' = calculate_circular_footprint(lat_deg, lon_deg, alt_m,
                                                   rounds_away, far)
    /\ fmtOp' = "calculate_circular_footprint"
    /\ UNCHANGED handlerVars

ApplyParseDuration ==
    /\ fmtOp = "none"
    /\ \E duration_str \in ParseTexts :
         /\ fmtIn' = [duration_str |-> duration_str]
         /\ fmtOut' = parse_duration(duration_str)
    /\ fmtOp' = "parse_duration"
    /\ UNCHANGED handlerVars

ApplyHandleParseAndValidate ==
    /\ fmtOp = "none"
    /\ \E st \in Optional(StartTexts), du \in Optional(DurationTexts),
          si \in Optional(HandlerStepTexts), now \in 0..MaxStart :
         /\ fmtIn' = [start_time |-> st, duration |-> du, step_interval |-> si,
                      now |-> now]
         /\ fmtOut' = handle_parse_and_validate(st, du, si, now)
    /\ fmtOp' = "handle_parse_and_validate"
    /\ UNCHANGED handlerVars

NextFmt ==
    \/ ApplyFormatTimestamp
    \/ ApplyValidateCoordinates
    \/ ApplyFormatPositionLla
    \/ ApplyFormatFootprintGeojson
    \/ ApplyFormatTelemetryMessage
    \/ ApplyFormatGroundTrackResponse
    \/ ApplyFetchTle
    \/ ApplySearchSatellitesByName
    \/ ApplyCalculateCircularFootprint
    \/ ApplyParseDuration
    \/ ApplyHandleParseAndValidate

SpecFmt ==
    Init /\ [][NextFmt]_vars

----------------------------------------------------------------------------
(* Properties *)

\* The UTC instant of a datetime (a naive one is taken as UTC)
Instant(time) ==
    time.wall - time.off

\* generate_ground_track has returned
Generated ==
    pc \in {"format", "done"}

\* The points the batch result is read as, and the one instant number i uses
BatchPoints ==
    IF batch.kind = "collection" THEN batch.points ELSE <<batch.obj>>
PointUsed(i) ==
    BatchPoints[IF i <= Len(BatchPoints) THEN i ELSE Len(BatchPoints)]

\* How many members of the set of indices S are <= i
Rank(S, i) ==
    Cardinality({j \in S : j <= i})

\* C1: for a validated (start, end, step) the instant sequence is strictly
\* increasing, starts at start, and ends at an instant <= end and > end - step.
C1_InstantSequence ==
    pc \in {"fallback", "format", "done"} =>
        LET p == params.value
            n == Len(times)
        IN  /\ n >= 1
            /\ Instant(times[1]) = Instant(p.start)
            /\ \A i \in 1..(n - 1) : Instant(times[i]) < Instant(times[i + 1])
            /\ Instant(times[n]) <= Instant(p.end)
            /\ Instant(times[n]) > Instant(p.end) - p.step

C1_Witness ==
    /\ pc = "format"
    /\ Len(times) >= 3
    /\ Instant(times[Len(times)]) = Instant(params.value.end)
    /\ Instant(times[1]) > 0

\* C2 as stated: an empty ground track is returned only when the batch call
\* failed and the per-instant path was tried and failed for every instant.
C2_EmptyOnlyAfterBothPathsFailed ==
    (Generated /\ ground_track = <<>>) =>
        /\ batch.kind = "raise"
        /\ Len(singles) = Len(times)
        /\ \A i \in 1..Len(singles) : ~singles[i].ok

\* C2 amended: generate_ground_track does not raise, and it returns an empty
\* ground track exactly when every instant's sample was dropped: the batch call
\* returned and extraction failed for every instant (the per-instant path is
\* then not tried), or the batch call raised and the per-instant propagation
\* failed for every instant.
C2_EmptyIffEverySampleDropped ==
    /\ error \in {"none", "parse", "validation", "resolution", "fetch", "create"}
    /\ Generated =>
        /\ error = "none"
        /\ batch.kind # "raise" => singles = <<>>
        /\ ground_track = <<>> <=>
            \/ /\ batch.kind # "raise"
               /\ \A i \in 1..Len(times) : BatchPoints = <<>> \/ ~PointUsed(i).ok
            \/ /\ batch.kind = "raise"
               /\ Len(singles) = Len(times)
               /\ \A i \in 1..Len(singles) : ~singles[i].ok

C2_Witness ==
    /\ pc = "format"
    /\ ground_track = <<>>
    /\ batch.kind = "collection"
    /\ Len(batch.points) >= 2
    /\ Len(times) >= 2
    /\ singles = <<>>

\* The per-instant propagation calls issued so far, in order
SingleCalls ==
    SelectSeq(calls, LAMBDA c : c.op = "propagate")

\* C3: when the batch call raises, the per-instant path issues exactly one
\* propagation call per instant, in order; a failed instant is skipped and
\* every instant that succeeds appears in the result.
C3_FallbackOneCallPerInstant ==
    batch.kind = "raise" =>
        LET ok == {i \in 1..Len(singles) : singles[i].ok}
        IN  /\ pc \in {"fallback", "format", "done"}
            /\ Len(SingleCalls) = Len(singles)
            /\ \A i \in 1..Len(singles) : SingleCalls[i].time = times[i]
            /\ Generated => Len(singles) = Len(times)
            /\ pc = "fallback" => Len(singles) < Len(times)
            /\ Len(ground_track) = Cardinality(ok)
            /\ \A i \in ok :
                 ground_track[Rank(ok, i)]
                   = <<Naive(Instant(times[i]))>> \o singles[i].lla

C3_Witness ==
    /\ pc = "format"
    /\ batch.kind = "raise"
    /\ Len(times) >= 3
    /\ singles[1].ok /\ ~singles[2].ok /\ singles[3].ok
    /\ Len(ground_track) = 2

\* C4: a batch result of k >= 1 points for n instants gives instant i the
\* returned point i for i < k and the last returned point for i >= k; a result
\* that is no collection counts as a collection of one point.
C4_PositionalAlignmentWithPadding ==
    (Generated /\ batch.kind \in {"collection", "single"} /\ Len(BatchPoints) >= 1) =>
        LET ok == {i \in 1..Len(times) : PointUsed(i).ok}
        IN  /\ batch.kind = "single" => Len(BatchPoints) = 1
            /\ Len(ground_track) = Cardinality(ok)
            /\ \A i \in ok :
                 ground_track[Rank(ok, i)]
                   = <<Naive(Instant(times[i]))>> \o PointUsed(i).lla

C4_Witness ==
    /\ pc = "format"
    /\ batch.kind = "collection"
    /\ Len(batch.points) = 2
    /\ Len(times) >= 3
    /\ batch.points[1].ok /\ batch.points[2].ok
    /\ batch.points[1] # batch.points[2]
    /\ Len(ground_track) = Len(times)

\* A text that is empty or all spaces
Blank(text) ==
    \A i \in 1..Len(text) : text[i] = " "

LatInRange(lat) ==
    MIN_LAT <= lat /\ lat <= MAX_LAT

LonInRange(lon) ==
    MIN_LON <= lon /\ lon <= MAX_LON

\* C5: format_ground_track_response yields one message for every sample that
\* formats, skips the others, and keeps the samples' order.
C5_ResponseIsOrderPreservingSubsequence ==
    fmtOp = "format_ground_track_response" =>
        LET track == fmtIn.ground_track
            ok == {i \in 1..Len(track) :
                     ~Blank(fmtIn.satellite_id) /\ LatInRange(track[i][2])}
        IN  /\ Len(fmtOut) = Cardinality(ok)
            /\ Len(fmtOut) <= Len(track)
            /\ \A i \in ok :
                 LET m == fmtOut[Rank(ok, i)]
                 IN  /\ m.time = <<DateTok(Instant(track[i][1])), ZTok>>
                     /\ m.position_lla.lat_deg = track[i][2]
                     /\ m.position_lla.alt_m = track[i][4]

C5_Witness ==
    /\ fmtOp = "format_ground_track_response"
    /\ Len(fmtIn.ground_track) = 3
    /\ LatInRange(fmtIn.ground_track[1][2])
    /\ ~LatInRange(fmtIn.ground_track[2][2])
    /\ LatInRange(fmtIn.ground_track[3][2])
    /\ Len(fmtOut) = 2

\* C6: a request whose identifier is no integer and whose name search yields
\* no candidate (also when the search failed) ends in an error and returns no
\* message list.
C6_UnresolvableIdentifierFails ==
    /\ (found.some /\ found.value.results = <<>>) =>
          /\ needs_search(satellite_identifier)
          /\ pc = "error"
          /\ error = "resolution"
          /\ messages = None
    /\ messages.some =>
          /\ norad_id.some /\ sat_info.some
          /\ needs_search(satellite_identifier) =>
                found.some /\ found.value.results # <<>>

C6_Witness ==
    /\ pc = "error"
    /\ found.some
    /\ found.value.answer = "transport_error"
    /\ calls # <<>>

\* What an ISO-8601 parser reads a timestamp text as: a UTC instant, or nothing
ParseIso8601(text) ==
    IF Len(text) = 2 /\ text[1].kind = "datetime" /\ text[2] = ZTok
    THEN Some(text[1].wall)
    ELSE IF Len(text) = 2 /\ text[1].kind = "datetime" /\ text[2].kind = "offset"
    THEN Some(text[1].wall - text[2].off)
    ELSE None

\* C7: for every input instant format_timestamp returns the UTC instant with a
\* trailing Z and no numeric offset, so that parsing it gives the instant back.
C7_TimestampIsUtcWithZ ==
    fmtOp = "format_timestamp" =>
        /\ endswith(fmtOut, ZTok)
        /\ \A i \in 1..Len(fmtOut) : fmtOut[i].kind # "offset"
        /\ ParseIso8601(fmtOut) = Some(Instant(fmtIn.time))

\* The vertices of a ring that pass per-vertex validation
Survivors(coordinates) ==
    {i \in 1..Len(coordinates) :
        Len(coordinates[i]) >= 2 /\ LatInRange(coordinates[i][2])}

ClosedFeature(feature) ==
    LET ring == feature.geometry.coordinates[1]
    IN  /\ ring[1] = ring[Len(ring)]
        /\ DOMAIN feature.properties = {}

\* C8: format_footprint_geojson returns null when fewer than 3 vertices pass
\* validation, and the message then has no footprint_geojson field; with 3 or
\* more the ring's first vertex equals its last and properties is empty.
C8_FootprintNullOrClosed ==
    /\ fmtOp = "format_footprint_geojson" =>
         IF Cardinality(Survivors(fmtIn.coordinates)) < MIN_RING
         THEN fmtOut = None
         ELSE fmtOut.some /\ ClosedFeature(fmtOut.value)
    /\ (fmtOp = "format_telemetry_message" /\ ~fmtOut.raised
          /\ fmtIn.footprint_coords.some) =>
         IF Cardinality(Survivors(fmtIn.footprint_coords.value)) < MIN_RING
         THEN "footprint_geojson" \notin DOMAIN fmtOut.value
         ELSE /\ "footprint_geojson" \in DOMAIN fmtOut.value
              /\ ClosedFeature(fmtOut.value.footprint_geojson)

C8_Witness ==
    /\ fmtOp = "format_footprint_geojson"
    /\ Len(fmtIn.coordinates) = 4
    /\ Cardinality(Survivors(fmtIn.coordinates)) = 3
    /\ fmtOut.some
    /\ Len(fmtOut.value.geometry.coordinates[1]) = 4

\* C9: each optional field of the message is present only when its argument
\* was given and is non-trivial (an empty flag list and an empty trajectory
\* list are omitted); id, time and position_lla are always present.
C9_OptionalFieldsOnlyWhenNonTrivial ==
    (fmtOp = "format_telemetry_message" /\ ~fmtOut.raised) =>
        LET m == fmtOut.value
        IN  /\ {"id", "time", "position_lla"} \subseteq DOMAIN m
            /\ "lookpoint_lla" \in DOMAIN m => fmtIn.lookpoint_lla.some
            /\ "footprint_geojson" \in DOMAIN m => fmtIn.footprint_coords.some
            /\ "state_flags" \in DOMAIN m =>
                 fmtIn.state_flags.some /\ fmtIn.state_flags.value # <<>>
            /\ "trajectory_batches" \in DOMAIN m =>
                 fmtIn.trajectory_batches.some /\ fmtIn.trajectory_batches.value # <<>>

\* C10: validate_coordinates and format_position_lla raise for every latitude
\* outside [-90, 90] and return every latitude inside it unchanged; no emitted
\* position_lla has lat_deg outside [-90, 90].
C10_LatitudeRejectedNotClamped ==
    /\ fmtOp = "validate_coordinates" =>
         IF LatInRange(fmtIn.lat_deg)
         THEN ~fmtOut.raised /\ fmtOut.value[1] = fmtIn.lat_deg
         ELSE fmtOut.raised
    /\ fmtOp = "format_position_lla" =>
         IF LatInRange(fmtIn.lat_deg)
         THEN ~fmtOut.raised /\ fmtOut.value.lat_deg = fmtIn.lat_deg
         ELSE fmtOut.raised
    /\ (fmtOp = "format_telemetry_message" /\ ~fmtOut.raised) =>
         /\ LatInRange(fmtOut.value.position_lla.lat_deg)
         /\ fmtOut.value.position_lla.lat_deg = fmtIn.position_lla[1]
    /\ fmtOp = "format_ground_track_response" =>
         \A i \in 1..Len(fmtOut) : LatInRange(fmtOut[i].position_lla.lat_deg)

C10_Witness ==
    /\ fmtOp = "format_position_lla"
    /\ fmtIn.lat_deg > MAX_LAT
    /\ fmtOut.raised

\* C11: for a latitude in range validate_coordinates never rejects a longitude;
\* a longitude in [-180, 180] is returned unchanged, every longitude is mapped
\* to one in [-180, 180] that is congruent to it modulo 360, and normalizing
\* the result again changes nothing.
C11_LongitudeNormalization ==
    (fmtOp = "validate_coordinates" /\ LatInRange(fmtIn.lat_deg)) =>
        /\ ~fmtOut.raised
        /\ LonInRange(fmtOut.value[2])
        /\ (fmtOut.value[2] - fmtIn.lon_deg) % FULL_TURN = 0
        /\ LonInRange(fmtIn.lon_deg) => fmtOut.value[2] = fmtIn.lon_deg
        /\ validate_coordinates(fmtOut.value[1], fmtOut.value[2]) = fmtOut

C11_Witness ==
    /\ fmtOp = "validate_coordinates"
    /\ fmtIn.lon_deg = 540
    /\ ~fmtOut.raised
    /\ fmtOut.value[2] = MIN_LON

\* The catalog id handed to fetch_tle is in [1, 99999]
IdInRange ==
    MIN_NORAD_ID <= fmtIn.norad_id /\ fmtIn.norad_id <= MAX_NORAD_ID

\* The non-blank lines of a response text
ResponseLines(response) ==
    SelectSeq(response.lines, LAMBDA l : l.len > 0)

\* A line with the shape of element line 1 ("1 ") or 2 ("2 ")
ElementLine(line, tag) ==
    line.tag = tag /\ line.len >= MIN_TLE_LEN /\ line.digit

\* A response fetch_tle reads lines from: a text that does not say "not found"
Readable(response) ==
    /\ response.kind = "text"
    /\ \A i \in 1..Len(response.lines) : response.lines[i].tag # "No GP data found"

\* C12: fetch_tle picks the element lines by whether the response starts with
\* a name line: with one, the next two lines are used; without one the first
\* two lines are used, however many lines follow.
C12_ElementLinesByNameLine ==
    (fmtOp = "fetch_tle" /\ IdInRange /\ Readable(fmtIn.response)) =>
        LET lines == ResponseLines(fmtIn.response)
        IN  /\ (Len(lines) >= 3 /\ lines[1].tag = "name"
                  /\ ElementLine(lines[2], "1 ") /\ ElementLine(lines[3], "2 ")) =>
                 fmtOut = Ok(<<lines[2], lines[3]>>)
            /\ (Len(lines) >= 2
                  /\ ElementLine(lines[1], "1 ") /\ ElementLine(lines[2], "2 ")) =>
                 fmtOut = Ok(<<lines[1], lines[2]>>)

\* C13: when fetch_tle returns, the catalog id is in [1, 99999] and the two
\* lines are lines of the response, each at least 69 long, tagged "1 " and
\* "2 " and ending in a digit; it raises for an id out of range and for a
\* response with fewer than two non-blank lines.
C13_ResolvedIdentityIsWellFormed ==
    fmtOp = "fetch_tle" =>
        /\ ~fmtOut.raised =>
             LET lines == ResponseLines(fmtIn.response)
             IN  /\ IdInRange
                 /\ fmtIn.response.kind = "text"
                 /\ ElementLine(fmtOut.value[1], "1 ")
                 /\ ElementLine(fmtOut.value[2], "2 ")
                 /\ \E i \in 1..(Len(lines) - 1) :
                      fmtOut.value = <<lines[i], lines[i + 1]>>
        /\ ~IdInRange => fmtOut.raised
        /\ (fmtIn.response.kind = "text" /\ Len(ResponseLines(fmtIn.response)) < 2) =>
             fmtOut.raised

C13_Witness ==
    /\ fmtOp = "fetch_tle"
    /\ ~fmtOut.raised
    /\ fmtIn.norad_id = MAX_NORAD_ID
    /\ Len(fmtIn.response.lines) = 3
    /\ fmtIn.response.lines[1].tag = "name"

\* The text is one integer literal
ParsesAsInteger(text) ==
    Len(text) = 1 /\ text[1].kind = "int"

\* The name-search calls this request issued
SearchCalls ==
    SelectSeq(calls, LAMBDA c : c.op = "search")

\* get_norad_id has returned
Resolved ==
    \/ pc \in {"fetch", "propagate", "fallback", "format", "done"}
    \/ pc = "error" /\ error \in {"resolution", "fetch", "create"}

\* C14: an identifier that parses as an integer is the catalog id at once and
\* no name search is called; the name search is called, once, with the
\* identifier as query and limit 1, only when the integer parse fails, and its
\* first match gives the catalog id.
C14_SearchOnlyWhenNotAnInteger ==
    /\ ~Resolved => calls = <<>>
    /\ Resolved =>
         IF ParsesAsInteger(satellite_identifier)
         THEN /\ norad_id = Some(satellite_identifier[1].n)
              /\ SearchCalls = <<>>
              /\ found = None
         ELSE /\ Len(SearchCalls) = 1
              /\ calls[1] = [op |-> "search", query |-> satellite_identifier, limit |-> 1]
              /\ found.some
              /\ Len(found.value.results) <= 1
              /\ norad_id = IF found.value.results = <<>> THEN None
                            ELSE Some(found.value.results[1].norad_id)

C14_Witness ==
    /\ pc = "fetch"
    /\ ParsesAsInteger(satellite_identifier)
    /\ norad_id = Some(25544)
    /\ calls = <<>>

\* The (start, end, step) a request parsed to passes the handler's guards
Acceptable(p) ==
    /\ p.end.wall > p.start.wall
    /\ p.end.wall - p.start.wall <= 30 * 86400
    /\ 1 <= p.step /\ p.step <= 3600

\* C15: generate_ground_track returns messages only for a request with
\* end > start, end - start <= 30 days and a step in [1, 3600] seconds; a
\* request that breaks one of these raises a validation error before any
\* outbound call and returns no message; exactly 30 days is accepted.
C15_ValidationIsAllOrNothing ==
    (request.some /\ request.value.parsed.some) =>
        LET p == request.value.parsed.value
        IN  /\ ~Acceptable(p) =>
                 /\ pc = "error" /\ error = "validation"
                 /\ messages = None /\ params = None /\ calls = <<>>
            /\ Acceptable(p) => params = Some(p) /\ error # "validation"
            /\ messages.some => Acceptable(p) /\ pc = "done"

C15_Witness ==
    /\ pc = "fetch"
    /\ request.value.parsed.some
    /\ LET p == request.value.parsed.value
       IN  p.end.wall - p.start.wall = 30 * 86400

\* Every instant got a point whose coordinates could be read and formatted
PropagationSucceeded ==
    IF batch.kind = "raise"
    THEN /\ Len(singles) = Len(times)
         /\ \A i \in 1..Len(singles) : singles[i].ok /\ LatInRange(singles[i].lla[1])
    ELSE /\ batch.kind \in {"collection", "single"}
         /\ BatchPoints # <<>>
         /\ \A i \in 1..Len(times) : PointUsed(i).ok /\ LatInRange(PointUsed(i).lla[1])

\* C17: when every propagation and formatting step succeeds, a request with
\* duration D and step S returns floor(D/S) + 1 messages, the first at the
\* start time and each S seconds after the one before; D = 10 minutes with
\* S = 10 seconds asks for between 60 and 62 instants; an absent start is now,
\* an absent duration 1 hour, an absent step 60 seconds.
C17_MessageCountAndSpacing ==
    (request.some /\ request.value.parsed.some) =>
        LET p == request.value.parsed.value
            given == request.value.supplied
            D == p.end.wall - p.start.wall
            S == p.step
        IN  /\ (pc = "done" /\ messages.some /\ PropagationSucceeded) =>
                 /\ Len(messages.value) = (D \div S) + 1
                 /\ \A i \in 1..Len(messages.value) :
                      messages.value[i].time
                        = <<DateTok(p.start.wall + (i - 1) * S), ZTok>>
            /\ (D = 600 /\ S = 10) =>
                 Len(time_sequence(ensure_utc(p.start), ensure_utc(p.end), S)) \in 60..62
            /\ ~given.start_time => p.start \in {Naive(now) : now \in 0..MaxStart}
            /\ ~given.duration => D = 3600
            /\ ~given.step_interval => S = 60

C17_Witness ==
    /\ pc = "done"
    /\ PropagationSucceeded
    /\ Len(messages.value) = 3
    /\ request.value.parsed.value.step = 2
    /\ ~request.value.supplied.start_time

\* The length in seconds of a unit of the vocabulary, in any of the cases the
\* inputs use; 0 for a word outside it
UnitLength(w) ==
    CASE w \in {"second", "seconds", "sec", "secs", "SEC", "Seconds"} -> 1
      [] w \in {"minute", "minutes", "min", "mins"} -> 60
      [] w \in {"hour", "hours", "hr", "hrs", "Hour"} -> 3600
      [] w \in {"day", "days"} -> 86400
      [] OTHER -> 0

\* C16: parse_duration reads a bare integer N as N minutes; otherwise a number
\* followed by a unit of the vocabulary gives number times the unit's length;
\* every other text (unknown unit, fewer than two tokens) raises.  The handler
\* parses step_interval the same way, so a bare integer step is minutes.
C16_DurationParsing ==
    /\ fmtOp = "parse_duration" =>
         LET t == fmtIn.duration_str
         IN  IF Len(t) = 1 /\ t[1].kind = "int"
             THEN fmtOut = Ok(t[1].n * 60)
             ELSE IF /\ Len(t) >= 2
                     /\ t[1].kind \in {"int", "float"}
                     /\ t[2].kind = "word"
                     /\ UnitLength(t[2].w) # 0
             THEN fmtOut = Ok(t[1].n * UnitLength(t[2].w))
             ELSE fmtOut.raised
    /\ (fmtOp = "handle_parse_and_validate" /\ fmtIn.step_interval.some
          /\ Len(fmtIn.step_interval.value) = 1
          /\ fmtIn.step_interval.value[1].kind = "int") =>
         LET N == fmtIn.step_interval.value[1].n
         IN  /\ ~fmtOut.raised => fmtOut.value.step = N * 60
             /\ (N * 60 < 1 \/ N * 60 > 3600) => fmtOut.raised

C16_Witness ==
    /\ fmtOp = "parse_duration"
    /\ fmtIn.duration_str = <<NumTok(90)>>
    /\ fmtOut = Ok(5400)

\* How many calls of one kind a request issued
CallCount(cs, op) ==
    Len(SelectSeq(cs, LAMBDA c : c.op = op))

\* The request has ended, after reaching identity resolution
Finished ==
    pc \in {"done", "error"} /\ error \notin {"parse", "validation"}

\* C18 as stated: every request that reaches resolution issues exactly one
\* element-fetch call and at most one name-search call.
C18_ExactlyOneFetchPerRequest ==
    /\ Finished =>
         CallCount(calls, "fetch") = 1 /\ CallCount(calls, "search") <= 1
    /\ \A k \in 1..Len(served) :
         /\ CallCount(served[k].calls, "fetch") = 1
         /\ CallCount(served[k].calls, "search") <= 1

\* C18 amended: no caching and no retry.  A request that reaches resolution
\* issues one name-search call exactly when its identifier is no integer, and
\* one element-fetch call exactly when an id was resolved and lies in
\* [1, 99999] (an unresolved name or an id out of range fails with no fetch);
\* no call is issued twice, also after a failure; and a request served after
\* another for the same identifier issues its own calls again.
C18_NoCacheNoRetry ==
    /\ pc \in {"idle", "resolve"} => calls = <<>>
    /\ Finished =>
         /\ CallCount(calls, "search")
              = IF ParsesAsInteger(satellite_identifier) THEN 0 ELSE 1
         /\ CallCount(calls, "fetch")
              = IF /\ norad_id.some
                   /\ MIN_NORAD_ID <= norad_id.value /\ norad_id.value <= MAX_NORAD_ID
                THEN 1 ELSE 0
         /\ sat_info.some => CallCount(calls, "fetch") = 1
    /\ \A k \in 1..Len(served) :
         /\ CallCount(served[k].calls, "search")
              = IF ParsesAsInteger(served[k].identifier) THEN 0 ELSE 1
         /\ CallCount(served[k].calls, "fetch") <= 1
         /\ served[k].result.some => CallCount(served[k].calls, "fetch") = 1

C18_Witness ==
    /\ pc = "done"
    /\ Len(served) = 1
    /\ served[1].identifier = satellite_identifier
    /\ served[1].result.some
    /\ ~ParsesAsInteger(satellite_identifier)
    /\ CallCount(served[1].calls, "fetch") = 1
    /\ CallCount(calls, "search") = 1
    /\ CallCount(calls, "fetch") = 1

\* C19: whatever goes wrong with the name search (transport, empty body, no
\* JSON, no list) search_satellites_by_name returns an empty list; a
\* transport failure of the element fetch makes fetch_tle raise.
C19_SearchDegradesFetchRaises ==
    /\ fmtOp = "search_satellites_by_name" =>
         /\ DOMAIN fmtOut = 1..Len(fmtOut)
         /\ fmtIn.response.kind
              \in {"transport_error", "empty_body", "not_json", "json_object"}
              => fmtOut = <<>>
    /\ (fmtOp = "fetch_tle" /\ IdInRange
          /\ fmtIn.response.kind \in {"timeout", "http_error", "request_exception"}) =>
         fmtOut = Raised("RequestException")

C19_Witness ==
    /\ fmtOp = "fetch_tle"
    /\ IdInRange
    /\ fmtIn.response.kind = "http_error"
    /\ fmtOut.raised

\* C20: every ring the footprint calculator returns has 17 vertices, the last
\* one equal to the first, every latitude in [-90, 90] and every longitude in
\* [-180, 180].
C20_FootprintRingIsClosed ==
    (fmtOp = "calculate_circular_footprint" /\ ~fmtOut.raised) =>
        LET ring == fmtOut.value
        IN  /\ Len(ring) = 17
            /\ ring[Len(ring)] = ring[1]
            /\ \A k \in 1..Len(ring) :
                 LonInRange(ring[k][1].deg) /\ LatInRange(ring[k][2])

\* The instants of a sequence of datetimes, or of ground-track tuples
InstantsOf(ts) ==
    [i \in 1..Len(ts) |-> Instant(ts[i])]
StampsOf(track) ==
    [k \in 1..Len(track) |-> Instant(track[k][1])]

\* s can be had from t by deleting members of t
RECURSIVE IsSubsequence(_, _)
IsSubsequence(s, t) ==
    IF s = <<>> THEN TRUE
    ELSE IF t = <<>> THEN FALSE
    ELSE IF Head(s) = Head(t) THEN IsSubsequence(Tail(s), Tail(t))
    ELSE IsSubsequence(s, Tail(t))

\* C21: on every path of generate_ground_track (batch, padded batch, dropped
\* samples, per-instant fallback) the timestamps of the ground track are a
\* strictly increasing subsequence of the instant sequence: none twice, none
\* invented, and never more than floor((end - start) / step) + 1 of them.
C21_TrackIsSubsequenceOfInstants ==
    pc \in {"fallback", "format", "done"} =>
        LET p == params.value
            stamps == StampsOf(ground_track)
        IN  /\ IsSubsequence(stamps, InstantsOf(times))
            /\ \A k \in 1..(Len(stamps) - 1) : stamps[k] < stamps[k + 1]
            /\ \A k \in 1..Len(stamps) :
                 \E i \in 1..Len(times) : stamps[k] = Instant(times[i])
            /\ \A k \in 1..Len(ground_track) : ~ground_track[k][1].aware
            /\ Len(ground_track) <= ((Instant(p.end) - Instant(p.start)) \div p.step) + 1

\* A batch result shorter than the instant sequence, padded with its last
\* point, with the first instant's sample dropped
C21_Witness ==
    /\ pc = "format"
    /\ batch.kind = "collection"
    /\ Len(batch.points) = 2
    /\ Len(times) >= 3
    /\ ~batch.points[1].ok /\ batch.points[2].ok
    /\ Len(ground_track) = Len(times) - 1
    /\ Instant(ground_track[1][1]) = Instant(times[2])

\* The calls that propagate the orbit: the batch call and the per-instant ones
PropagationCall(c) ==
    c.op \in {"propagate_batch", "propagate"}

\* C22: in the generate_ground_track handler parsing and validation come before
\* identity resolution: when the start time, the duration or the step does not
\* parse, or the time range or the step is rejected, the request has issued no
\* search call, no fetch call and no propagation call; and no propagation call
\* is issued before a validated element set was fetched.
C22_ParsingAndValidationPrecedeResolution ==
    request.some =>
        LET parsed == request.value.parsed
        IN  /\ ~parsed.some => pc = "error" /\ error = "parse"
            /\ (pc = "error" /\ error \in {"parse", "validation"}) =>
                 /\ calls = <<>>
                 /\ found = None /\ norad_id = None /\ sat_info = None
                 /\ times = <<>> /\ ground_track = <<>>
            /\ calls # <<>> =>
                 /\ parsed.some /\ Acceptable(parsed.value)
                 /\ params = parsed
            /\ \A i \in 1..Len(calls) :
                 PropagationCall(calls[i]) =>
                   /\ sat_info.some
                   /\ ~validate_tle_format(sat_info.value.tle_line1,
                                           sat_info.value.tle_line2).raised
                   /\ \E j \in 1..(i - 1) :
                        /\ calls[j].op = "fetch"
                        /\ calls[j].norad_id = sat_info.value.norad_id

\* A request whose duration does not parse, given an identifier that would
\* need a name search
C22_Witness ==
    /\ pc = "error"
    /\ error = "parse"
    /\ request.value.supplied.duration
    /\ needs_search(satellite_identifier)
    /\ calls = <<>>

\* C23: format_telemetry_message fails for an empty or whitespace-only
\* satellite id; format_ground_track_response given such an id and a non-empty
\* ground track does not fail: every sample is skipped and it returns an empty
\* message list.
C23_BlankIdFailsMessageButEmptiesResponse ==
    /\ (fmtOp = "format_telemetry_message" /\ Blank(fmtIn.satellite_id)) =>
          fmtOut = Raised("ValueError")
    /\ (fmtOp = "format_telemetry_message" /\ ~fmtOut.raised) =>
          ~Blank(fmtIn.satellite_id) /\ ~Blank(fmtOut.value.id)
    /\ (fmtOp = "format_ground_track_response" /\ Blank(fmtIn.satellite_id)) =>
          fmtOut = <<>>
    /\ (fmtOp = "format_ground_track_response" /\ fmtOut # <<>>) =>
          /\ ~Blank(fmtIn.satellite_id)
          /\ \A k \in 1..Len(fmtOut) : ~Blank(fmtOut[k].id)

\* A whitespace-only id with a track of two samples, the first of which
\* would format under a proper id
C23_Witness ==
    /\ fmtOp = "format_ground_track_response"
    /\ fmtIn.satellite_id = <<" ", " ">>
    /\ Len(fmtIn.ground_track) = 2
    /\ LatInRange(fmtIn.ground_track[1][2])
    /\ fmtOut = <<>>

\* A raw catalog record has a usable id: the field the code reads is truthy
\* and int() converts it
Usable(sat) ==
    raw_norad_id(sat).truthy /\ raw_norad_id(sat).int.some

\* The raw records of a search response (none unless it is a JSON list)
RawData(response) ==
    IF response.kind = "json_list" THEN response.data ELSE <<>>

\* C24: search_satellites_by_name returns at most limit results, in the order
\* of the catalog response, each with an integer norad_id; the raw records
\* are cut to the first limit before the ones without a usable id are left
\* out, so with limit 1 nothing is found when the first raw record has no
\* usable id, whatever follows it.
C24_AtMostLimitTruncatedBeforeFilter ==
    fmtOp = "search_satellites_by_name" =>
        LET data == RawData(fmtIn.response)
            limit == fmtIn.limit
            kept == {i \in 1..Len(data) : i <= limit /\ Usable(data[i])}
        IN  /\ Len(fmtOut) <= (IF limit < 0 THEN 0 ELSE limit)
            /\ Len(fmtOut) = Cardinality(kept)
            /\ \A i \in kept :
                 fmtOut[Rank(kept, i)].norad_id = raw_norad_id(data[i]).int.value
            /\ \A k \in 1..Len(fmtOut) : fmtOut[k].norad_id \in Int
            /\ (limit = SEARCH_LIMIT /\ data # <<>> /\ ~Usable(data[1])) =>
                 fmtOut = <<>>

====
